---------------------------- MODULE Spec2Model ----------------------------
(***************************************************************************)
(* fork-off-substrate, src/index.js.                                       *)
(*                                                                         *)
(* Spec        : main() lines 74-89 and 106 with fetchChunks() (160-183):  *)
(*               the cache test, the chunk walk over the RPC source, the   *)
(*               write stream of storage.json and its read-back, over      *)
(*               successive runs of the script on the same data folder.    *)
(* WalkSpec    : one run of Spec in which no request is rejected, with     *)
(*               weak fairness on the delivery of responses.               *)
(* SpliceSpec  : main() lines 48-72 and 91-142 of a run that finds the     *)
(*               snapshot file: the prerequisites, the prefix list and the *)
(*               splice of the snapshot into the forked chain spec.        *)
(*                                                                         *)
(* Hex strings ("0x..") are sequences of hex digits 0..15 without the      *)
(* leading "0x".  JSON text is a sequence of tokens: "[", "]", "," and one *)
(* token per ["key","value"] pair.                                         *)
(***************************************************************************)
EXTENDS Integers, Sequences, FiniteSets, TLC

(***************************************************************************)
(* Bounds.  Fanout stands for the 256 byte values of lines 25, 174 and 179 *)
(* (scaled down so that the interleavings of one fan-out batch can be      *)
(* enumerated); the other bounds limit the inputs.                         *)
(***************************************************************************)
Fanout == 2
MaxLevels == 2
MaxPairs == 2
MaxRuns == 2
MaxSnap == 2

VARIABLES
    source,         \* the chain's storage at the queried block: a sequence of <<key, value>>
    envLevel,       \* process.env.FORK_CHUNKS_LEVEL: -1 when unset, else the number in the string
    quick,          \* process.env.QUICK_MODE is a non-empty string
    run,            \* number of the current run of the script
    pc,             \* position of main(): start, fetch, meta, done, aborted, exited
    cached,         \* this run took the branch of line 75
    stack,          \* suspended non-leaf fetchChunks calls, outermost first
    outstanding,    \* prefixes whose state_getPairs request has no response yet
    queries,        \* prefixes sent to state_getPairs in this run, in order
    handled,        \* prefixes whose response has been handled (lines 163-168)
    chunksFetched,  \* line 27
    separator,      \* line 28
    rpcFailed,      \* a state_getPairs request of this run was rejected
    stream,         \* writes accepted by the WriteStream and not yet on disk
    file,           \* data/storage.json
    fileAtStart,    \* data/storage.json when the run started
    readText,       \* what line 106 read from data/storage.json
    \* the prerequisites and the splice (SpliceSpec)
    binary,         \* data/binary exists
    wasm,           \* data/runtime.wasm exists
    schema,         \* data/schema.json: missing, ok or malformed
    calls,          \* what the run has called outside the process: programs and the RPC
    written,        \* names of the files the run has written
    exitCode,       \* status given to process.exit, -1 while none was given
    spc,            \* position of main(): lines 48-72, then from line 91 on
    modules,        \* metadata.asLatest.modules
    hexFile,        \* data/runtime.hex
    chainSpec,      \* what `binary build-spec --chain <chain> --raw` prints
    devSpec,        \* what `binary build-spec --dev --raw` prints
    originalFile,   \* data/genesis.json
    forkFile,       \* data/fork.json
    prefixes,       \* line 44
    storage,        \* line 106
    originalSpec,   \* line 107
    forkedSpec      \* line 108

fvars == <<source, envLevel, quick, run, pc, cached, stack, outstanding, queries, handled,
           chunksFetched, separator, rpcFailed, stream, file, fileAtStart, readText>>

svars == <<binary, wasm, schema, calls, written, exitCode,
           spc, modules, hexFile, chainSpec, devSpec, originalFile, forkFile, prefixes,
           storage, originalSpec, forkedSpec>>

vars == <<fvars, svars>>

----------------------------------------------------------------------------
(* Text and JSON *)

Range(s) == {s[i] : i \in 1..Len(s)}

RECURSIVE Pow(_, _)
Pow(b, e) == IF e <= 0 THEN 1 ELSE b * Pow(b, e - 1)

RECURSIVE Flatten(_)
Flatten(ss) == IF ss = <<>> THEN <<>> ELSE Head(ss) \o Flatten(Tail(ss))

StartsWith(s, p) == Len(p) <= Len(s) /\ SubSeq(s, 1, Len(p)) = p

Punct(c) == [t |-> c, k |-> <<>>, v |-> <<>>]
LB == Punct("[")
RB == Punct("]")
COMMA == Punct(",")
PairTok(p) == [t |-> "pair", k |-> p[1], v |-> p[2]]

RECURSIVE JoinPairs(_)
JoinPairs(ps) ==
    IF ps = <<>> THEN <<>>
    ELSE IF Len(ps) = 1 THEN <<PairTok(ps[1])>>
    ELSE <<PairTok(ps[1]), COMMA>> \o JoinPairs(Tail(ps))

JSONstringify(ps) == <<LB>> \o JoinPairs(ps) \o <<RB>>

Slice1(text) == SubSeq(text, 2, Len(text) - 1)

SyntaxError == <<"SyntaxError">>

\* the elements of a JSON array body: pair ("," pair)*
RECURSIVE ParseElements(_)
ParseElements(body) ==
    IF body = <<>> THEN SyntaxError
    ELSE IF body[1].t # "pair" THEN SyntaxError
    ELSE IF Len(body) = 1 THEN <<<<body[1].k, body[1].v>>>>
    ELSE IF body[2] # COMMA THEN SyntaxError
    ELSE LET rest == ParseElements(SubSeq(body, 3, Len(body)))
         IN  IF rest = SyntaxError THEN SyntaxError
             ELSE <<<<body[1].k, body[1].v>>>> \o rest

JSONparse(text) ==
    IF Len(text) < 2 \/ text[1] # LB \/ text[Len(text)] # RB THEN SyntaxError
    ELSE IF Len(text) = 2 THEN <<>>
    ELSE ParseElements(SubSeq(text, 2, Len(text) - 1))

----------------------------------------------------------------------------
(* Configuration *)

ChunksLevel == IF envLevel = -1 THEN 1 ELSE envLevel

totalChunks == Pow(Fanout, ChunksLevel)

----------------------------------------------------------------------------
(* The RPC source *)

Val(n) == <<0, n>>
PairUniverse ==
    { <<<<0, 1>>, Val(1)>>,
      <<<<0, 0, 0, 1>>, Val(2)>>,
      <<<<0, 0, 0, 0>>, Val(3)>>,
      <<<<0, 1, 0, 0>>, Val(4)>>,
      <<<<0, 1, 0, 0, 0, 1>>, Val(5)>> }

Sources ==
    UNION { { s \in [1..n -> PairUniverse] :
                \A i, j \in 1..n : i # j => s[i][1] # s[j][1] } : n \in 0..MaxPairs }

Query(prefix) == SelectSeq(source, LAMBDA p : StartsWith(p[1], prefix))

----------------------------------------------------------------------------
(* fetchChunks *)

ToString16(i) == IF i < 16 THEN <<i>> ELSE <<i \div 16, i % 16>>
PadStart2(s) == IF Len(s) < 2 THEN <<0>> \o s ELSE s
\* variant: the children are visited from ff down to 00
ChildPrefixDescending(prefix, i) == prefix \o PadStart2(ToString16(Fanout - 1 - i))
ChildPrefix(prefix, i) == prefix \o PadStart2(ToString16(i))

\* variant: the last level is fanned out whether QUICK_MODE is set or not
FanOutIgnoresMode(levelsRemaining) == levelsRemaining = 1
\* variant: the fan-out is taken at every level, not only the last
FanOutAnyLevel(levelsRemaining) == quick /\ levelsRemaining >= 1
\* line 172
FanOutCond(levelsRemaining) == quick /\ levelsRemaining = 1

Frame(prefix, levelsRemaining, i) == [prefix |-> prefix, lr |-> levelsRemaining, i |-> i]

\* A call of fetchChunks up to its first suspension: the frames it leaves
\* suspended and the requests it has sent.
RECURSIVE Call(_, _), LaunchAll(_, _, _)
Call(prefix, levelsRemaining) ==
    IF levelsRemaining <= 0
    THEN [frames |-> <<>>, sent |-> <<prefix>>]
    ELSE IF FanOutCond(levelsRemaining)
    THEN LET l == LaunchAll(prefix, levelsRemaining, 0)
         IN  [frames |-> <<Frame(prefix, levelsRemaining, Fanout - 1)>> \o l.frames,
              sent |-> l.sent]
    ELSE LET c == Call(ChildPrefix(prefix, 0), levelsRemaining - 1)
         IN  [frames |-> <<Frame(prefix, levelsRemaining, 0)>> \o c.frames,
              sent |-> c.sent]
LaunchAll(prefix, levelsRemaining, i) ==
    IF i >= Fanout THEN [frames |-> <<>>, sent |-> <<>>]
    ELSE LET c == Call(ChildPrefix(prefix, i), levelsRemaining - 1)
             r == LaunchAll(prefix, levelsRemaining, i + 1)
         IN  [frames |-> c.frames \o r.frames, sent |-> c.sent \o r.sent]

\* The awaited child (or batch) of the innermost suspended call is settled.
RECURSIVE Return(_)
Return(st) ==
    IF st = <<>> THEN [frames |-> <<>>, sent |-> <<>>, complete |-> TRUE]
    ELSE LET f == st[Len(st)]
             outer == SubSeq(st, 1, Len(st) - 1)
         IN  IF f.i + 1 < Fanout
             THEN LET c == Call(ChildPrefix(f.prefix, f.i + 1), f.lr - 1)
                  IN  [frames |-> outer \o <<Frame(f.prefix, f.lr, f.i + 1)>> \o c.frames,
                       sent |-> c.sent, complete |-> FALSE]
             ELSE Return(outer)

\* variant: the awaited promise is never settled
AwaitNever(out) == FALSE
\* variant: the batch is awaited with Promise.race, which settles with its first child
AwaitFirst(out) == TRUE
\* await Promise.all(promises), await fetchChunks(child), await fetchChunks("0x"):
\* the awaited promise is fulfilled when no request under it is outstanding
AwaitResumes(out) == out = {}

\* variant: the fragment is written without the separator test
LeafWritesNoSeparator(pairs) ==
    IF Len(pairs) > 0 THEN <<Slice1(JSONstringify(pairs))>> ELSE <<>>
\* lines 163-166
LeafWrites(pairs) ==
    IF Len(pairs) > 0
    THEN (IF separator THEN <<<<COMMA>>>> ELSE <<>>) \o <<Slice1(JSONstringify(pairs))>>
    ELSE <<>>

\* variant: the flag is set by every chunk, empty or not
SeparatorSetAlways(pairs) == TRUE
\* line 164: the flag after the chunk has been handled
SeparatorSet(pairs) == separator \/ Len(pairs) > 0

\* variant: the counter is written back from a value read before the await,
\* so an increment is lost while another leaf is in flight
AdvanceLost(n) == IF Cardinality(outstanding) > 1 THEN n ELSE n + 1
\* line 167: ++chunksFetched
Advance(n) == n + 1

----------------------------------------------------------------------------
(* The splice: constants of lines 44-45 and 121-137 *)

\* line 44, System.Account
PinnedPrefix ==
    <<2, 6, 10, 10, 3, 9, 4, 14, 14, 10, 5, 6, 3, 0, 14, 0, 7, 12, 4, 8, 10, 14, 0, 12,
      9, 5, 5, 8, 12, 14, 15, 7, 11, 9, 9, 13, 8, 8, 0, 14, 12, 6, 8, 1, 7, 9, 9, 12,
      0, 12, 15, 3, 0, 14, 8, 8, 8, 6, 3, 7, 1, 13, 10, 9>>

\* variant: no module is skipped
NothingSkipped == {}
\* line 45
skippedModulesPrefix ==
    {"System", "Session", "Babe", "Grandpa", "GrandpaFinality", "FinalityTracker", "Authorship"}

\* line 121, System.LastRuntimeUpgrade
KeyLastRuntimeUpgrade ==
    <<2, 6, 10, 10, 3, 9, 4, 14, 14, 10, 5, 6, 3, 0, 14, 0, 7, 12, 4, 8, 10, 14, 0, 12,
      9, 5, 5, 8, 12, 14, 15, 7, 15, 9, 12, 12, 14, 9, 12, 8, 8, 8, 4, 6, 9, 11, 11, 1,
      10, 0, 13, 12, 14, 10, 10, 1, 2, 9, 6, 7, 2, 14, 15, 8>>

\* line 124, ":code"
KeyCode == <<3, 10, 6, 3, 6, 15, 6, 4, 6, 5>>

\* line 127, Staking.ForceEra
KeyForceEra ==
    <<5, 15, 3, 14, 4, 9, 0, 7, 15, 7, 1, 6, 10, 12, 8, 9, 11, 6, 3, 4, 7, 13, 1, 5,
      14, 12, 14, 12, 14, 13, 12, 10, 15, 7, 13, 10, 13, 0, 3, 1, 7, 3, 2, 4, 10, 14,
      12, 10, 14, 8, 7, 4, 4, 11, 8, 7, 15, 12, 9, 5, 15, 2, 15, 3>>

ForceNone == <<0, 2>>

\* line 130, HostConfiguration
KeyHostConfiguration ==
    <<4, 5, 3, 2, 3, 13, 15, 7, 12, 12, 4, 7, 1, 5, 0, 11, 3, 9, 3, 0, 14, 2, 6, 6, 6,
      11, 0, 10, 10, 3, 1, 3, 12, 5, 2, 2, 2, 3, 1, 8, 8, 0, 2, 3, 8, 10, 0, 12, 5, 6,
      0, 2, 1, 11, 8, 7, 4, 4, 10, 0, 0, 7, 4, 3>>

HostConfigurationValue ==
    <<0, 0, 0, 0, 10, 0, 0, 0, 0, 0, 5, 0, 0, 0, 0, 0, 0, 10, 0, 0, 0, 0, 0, 0, 0, 0,
      12, 8, 0, 0, 0, 0, 0, 0, 12, 8, 0, 0, 0, 0, 0, 10, 0, 0, 0, 0, 0, 0, 0, 10, 0, 0,
      0, 0, 0, 0, 0, 1, 0, 0, 0, 0, 0, 0, 0, 1, 0, 0, 0, 0, 0, 0>>

\* lines 133-134, members of the council and of the technical committee
KeyCouncilMembers ==
    <<1, 1, 15, 3, 11, 10, 2, 14, 1, 12, 13, 13, 6, 13, 6, 2, 15, 2, 15, 15, 9, 11, 5,
      5, 8, 9, 14, 7, 15, 15, 8, 1, 11, 10, 7, 15, 11, 8, 7, 4, 5, 7, 3, 5, 13, 12, 3,
      11, 14, 2, 10, 2, 12, 6, 1, 10, 7, 2, 12, 3, 9, 14, 7, 8>>

KeyTechnicalMembers ==
    <<8, 9, 8, 5, 7, 7, 6, 0, 9, 5, 10, 13, 13, 13, 4, 7, 8, 9, 15, 12, 12, 11, 12, 14,
      8, 12, 10, 7, 7, 11, 2, 3, 11, 10, 7, 15, 11, 8, 7, 4, 5, 7, 3, 5, 13, 12, 3, 11,
      14, 2, 10, 2, 12, 6, 1, 10, 7, 2, 12, 3, 9, 14, 7, 8>>

AliceOnly ==
    <<0, 4, 15, 2, 4, 15, 15, 3, 10, 9, 12, 15, 0, 4, 12, 7, 1, 13, 11, 12, 9, 4, 13,
      0, 11, 5, 6, 6, 15, 7, 10, 2, 7, 11, 9, 4, 5, 6, 6, 12, 10, 12>>

\* line 137
KeyEligibility ==
    <<7, 6, 3, 1, 0, 14, 14, 2, 4, 13, 11, 13, 6, 0, 9, 13, 2, 1, 13, 0, 8, 10, 13, 7,
      2, 9, 2, 7, 5, 7, 13, 0, 14, 4, 8, 13, 15, 8, 0, 1, 9, 4, 6, 12, 7, 10, 0, 12,
      12, 5, 4, 15, 1, 10, 4, 14, 5, 1, 5, 9, 2, 7, 4, 1>>

EligibilityValue == <<6, 4>>

\* xxhashAsHex(name, 128) for the storage prefixes of the modelled metadata
XXHash128(name) ==
    CASE name = "System" -> SubSeq(PinnedPrefix, 1, 32)
      [] name = "Staking" -> SubSeq(KeyForceEra, 1, 32)
      [] name = "Instance1Collective" -> SubSeq(KeyCouncilMembers, 1, 32)
      [] name = "Session" ->
            <<12, 14, 12, 5, 0, 7, 0, 13, 6, 0, 9, 13, 13, 3, 4, 9,
              7, 15, 7, 2, 11, 13, 14, 0, 7, 15, 12, 9, 6, 11, 10, 0>>
      [] name = "Council" ->
            <<10, 14, 11, 13, 4, 6, 3, 14, 13, 9, 9, 2, 5, 12, 4, 8,
              8, 12, 1, 1, 2, 4, 3, 4, 13, 6, 1, 13, 14, 11, 12, 0>>
      [] name = "Utility" ->
            <<13, 5, 14, 1, 10, 2, 15, 10, 1, 6, 7, 3, 2, 12, 14, 6,
              9, 0, 6, 1, 8, 9, 4, 3, 8, 12, 0, 10, 8, 2, 12, 6>>

----------------------------------------------------------------------------
(* The splice: inputs *)

\* a module of the metadata: its name and, when it has storage, the storage prefix
Module(name, hasStorage, storagePrefix) ==
    [name |-> name, storage |-> hasStorage, prefix |-> storagePrefix]

ModSystem == Module("System", TRUE, "System")
ModUtility == Module("Utility", FALSE, "")
ModStaking == Module("Staking", TRUE, "Staking")
ModSession == Module("Session", TRUE, "Session")
ModCouncil == Module("Council", TRUE, "Instance1Collective")

RECURSIVE SetToSeq(_)
SetToSeq(S) ==
    IF S = {} THEN <<>>
    ELSE LET x == CHOOSE y \in S : TRUE IN <<x>> \o SetToSeq(S \ {x})

Metadatas ==
    { <<ModSystem, ModUtility>> \o SetToSeq(S) : S \in SUBSET {ModStaking, ModSession, ModCouncil} }

\* the runtime blob in hex, as line 58 leaves it; 16 stands for a newline
Newline == <<16>>
RuntimeHex == <<0, 0, 6, 1, 7, 3, 6, 13>>
HexFiles == {RuntimeHex, RuntimeHex \o Newline}

\* keys and values of the pairs a snapshot file may hold
KeyAccount == PinnedPrefix \o <<10, 10>>
KeySessionValidators == XXHash128("Session") \o <<8, 8>>
SnapKeys == {KeyAccount, KeyForceEra, KeyCode, KeySessionValidators, KeyCouncilMembers}
SnapValues == {ForceNone, RuntimeHex}
SnapPairs == { <<k, v>> : k \in SnapKeys, v \in SnapValues }
Snapshots == UNION { [1..n -> SnapPairs] : n \in 0..MaxSnap }
SnapshotTexts == { JSONstringify(sn) : sn \in Snapshots } \cup { <<>>, <<LB>> }

\* genesis.raw.top of the template: a map from keys to values
TemplateValue == <<0, 0>>
Templates ==
    { [k \in S |-> TemplateValue] :
          S \in SUBSET {KeyLastRuntimeUpgrade, KeyForceEra, KeySessionValidators} }

EmptyTop == [k \in {} |-> TemplateValue]

Doc(name, id, protocolId, top) ==
    [ok |-> TRUE, name |-> name, id |-> id, protocolId |-> protocolId, top |-> top]
NoDoc == [ok |-> FALSE, name |-> <<>>, id |-> <<>>, protocolId |-> <<>>, top |-> EmptyTop]

\* what build-spec leaves in its output file; NoDoc is a text that is no JSON document
ChainSpecs == { Doc(<<"kusama">>, <<"ks">>, <<"ksmcc3">>, EmptyTop), NoDoc }
DevSpecs == { Doc(<<"Development">>, <<"dev">>, <<"dev">>, tp) : tp \in Templates } \cup { NoDoc }
Schemas == {"missing", "ok", "malformed"}
PriorOutput == Doc(<<"kusama", "-fork">>, <<"ks", "-fork">>, <<"ksmcc3">>, EmptyTop)

\* the values of the splice's variables while the fetch is looked at
SpliceIdle ==
    /\ binary = TRUE
    /\ wasm = TRUE
    /\ schema = "missing"
    /\ calls = {}
    /\ written = {}
    /\ exitCode = -1
    /\ spc = "idle"
    /\ modules = <<>>
    /\ hexFile = RuntimeHex
    /\ chainSpec = NoDoc
    /\ devSpec = NoDoc
    /\ originalFile = NoDoc
    /\ forkFile = NoDoc
    /\ prefixes = <<>>
    /\ storage = <<>>
    /\ originalSpec = NoDoc
    /\ forkedSpec = NoDoc

----------------------------------------------------------------------------
(* Actions *)

NoFile == [exists |-> FALSE, text |-> <<>>]
Unread == [read |-> FALSE, text |-> <<>>]

Init ==
    /\ source \in Sources
    /\ envLevel \in -1..MaxLevels
    /\ quick \in BOOLEAN
    /\ run = 1
    /\ pc = "start"
    /\ cached = FALSE
    /\ stack = <<>>
    /\ outstanding = {}
    /\ queries = <<>>
    /\ handled = {}
    /\ chunksFetched = 0
    /\ separator = FALSE
    /\ rpcFailed = FALSE
    /\ stream = <<>>
    /\ file = NoFile
    /\ fileAtStart = NoFile
    /\ readText = Unread
    /\ SpliceIdle

\* variant: the cache test is skipped and every run fetches
CacheIgnored == FALSE
\* line 74: fs.existsSync(storagePath)
CacheExists == file.exists

\* lines 74-75
ReuseCache ==
    /\ pc = "start"
    /\ CacheExists
    /\ pc' = "meta"
    /\ cached' = TRUE
    /\ UNCHANGED <<source, envLevel, quick, run, stack, outstanding, queries, handled,
                   chunksFetched, separator, rpcFailed, stream, file, fileAtStart, readText>>
    /\ UNCHANGED svars

\* lines 76-85, to the first suspension of fetchChunks
BeginFetch ==
    /\ pc = "start"
    /\ ~CacheExists
    /\ LET c == Call(<<>>, ChunksLevel)
       IN  /\ stack' = c.frames
           /\ outstanding' = Range(c.sent)
           /\ queries' = c.sent
    /\ stream' = <<<<LB>>>>
    /\ pc' = "fetch"
    /\ UNCHANGED <<source, envLevel, quick, run, cached, handled, chunksFetched, separator,
                   rpcFailed, file, fileAtStart, readText>>
    /\ UNCHANGED svars

\* lines 162-168 after the response, and whatever resumes with it
LeafReturn(p) ==
    /\ pc \in {"fetch", "aborted"}
    /\ p \in outstanding
    /\ LET pairs == Query(p)
           w == LeafWrites(pairs)
           out == outstanding \ {p}
       IN  /\ separator' = SeparatorSet(pairs)
           /\ chunksFetched' = Advance(chunksFetched)
           /\ handled' = handled \cup {p}
           /\ IF pc = "fetch" /\ AwaitResumes(out)
              THEN LET r == Return(stack)
                   IN  IF r.complete
                       THEN \* lines 86-88
                            /\ stream' = stream \o w \o <<<<RB>>>>
                            /\ pc' = "meta"
                            /\ stack' = <<>>
                            /\ outstanding' = out
                            /\ queries' = queries
                       ELSE /\ stream' = stream \o w
                            /\ pc' = pc
                            /\ stack' = r.frames
                            /\ outstanding' = out \cup Range(r.sent)
                            /\ queries' = queries \o r.sent
              ELSE /\ stream' = stream \o w
                   /\ outstanding' = out
                   /\ UNCHANGED <<pc, stack, queries>>
    /\ UNCHANGED <<source, envLevel, quick, run, cached, rpcFailed, file, fileAtStart, readText>>
    /\ UNCHANGED svars

\* variant: the rejection is caught and the request is sent again
LeafFailRetry(p) ==
    /\ pc = "fetch"
    /\ p \in outstanding
    /\ queries' = Append(queries, p)
    /\ rpcFailed' = TRUE
    /\ UNCHANGED <<source, envLevel, quick, run, pc, cached, stack, outstanding, handled,
                   chunksFetched, separator, stream, file, fileAtStart, readText>>
    /\ UNCHANGED svars
\* line 162 rejects: nothing catches it up to main(argv) at line 158
LeafFail(p) ==
    /\ pc \in {"fetch", "aborted"}
    /\ p \in outstanding
    /\ outstanding' = outstanding \ {p}
    /\ pc' = "aborted"
    /\ rpcFailed' = TRUE
    /\ stack' = <<>>
    /\ UNCHANGED <<source, envLevel, quick, run, cached, queries, handled, chunksFetched,
                   separator, stream, file, fileAtStart, readText>>
    /\ UNCHANGED svars

\* the WriteStream of line 83 opens the file, then writes what it was given, in order
StreamOpen ==
    /\ pc \in {"fetch", "meta", "aborted"}
    /\ ~cached
    /\ ~file.exists
    /\ file' = [exists |-> TRUE, text |-> <<>>]
    /\ UNCHANGED <<source, envLevel, quick, run, pc, cached, stack, outstanding, queries, handled,
                   chunksFetched, separator, rpcFailed, stream, fileAtStart, readText>>
    /\ UNCHANGED svars

StreamFlush ==
    /\ pc \in {"fetch", "meta", "aborted"}
    /\ file.exists
    /\ stream # <<>>
    /\ file' = [exists |-> TRUE, text |-> file.text \o Head(stream)]
    /\ stream' = Tail(stream)
    /\ UNCHANGED <<source, envLevel, quick, run, pc, cached, stack, outstanding, queries, handled,
                   chunksFetched, separator, rpcFailed, fileAtStart, readText>>
    /\ UNCHANGED svars

\* lines 91-142 once the metadata has arrived: line 106 reads the snapshot back
ReadSnapshot ==
    /\ pc = "meta"
    /\ file.exists
    /\ readText' = [read |-> TRUE, text |-> file.text]
    /\ pc' = IF JSONparse(file.text) = SyntaxError THEN "aborted" ELSE "done"
    /\ UNCHANGED <<source, envLevel, quick, run, cached, stack, outstanding, queries, handled,
                   chunksFetched, separator, rpcFailed, stream, file, fileAtStart>>
    /\ UNCHANGED svars

\* line 106 when the file is not there yet
ReadSnapshotMissing ==
    /\ pc = "meta"
    /\ ~file.exists
    /\ pc' = "aborted"
    /\ UNCHANGED <<source, envLevel, quick, run, cached, stack, outstanding, queries, handled,
                   chunksFetched, separator, rpcFailed, stream, file, fileAtStart, readText>>
    /\ UNCHANGED svars

\* line 142, or the process dies of the unhandled rejection
ProcessExit ==
    /\ pc \in {"done", "aborted"}
    /\ pc' = "exited"
    /\ stack' = <<>>
    /\ outstanding' = {}
    /\ queries' = <<>>
    /\ handled' = {}
    /\ chunksFetched' = 0
    /\ separator' = FALSE
    /\ stream' = <<>>
    /\ readText' = Unread
    /\ UNCHANGED <<source, envLevel, quick, run, cached, rpcFailed, file, fileAtStart>>
    /\ UNCHANGED svars

\* the operator runs the script again on the same data folder
NewRun ==
    /\ pc = "exited"
    /\ run < MaxRuns
    /\ run' = run + 1
    /\ pc' = "start"
    /\ cached' = FALSE
    /\ rpcFailed' = FALSE
    /\ fileAtStart' = file
    /\ UNCHANGED <<source, envLevel, quick, stack, outstanding, queries, handled, chunksFetched,
                   separator, stream, file, readText>>
    /\ UNCHANGED svars

\* line 75: the operator does "Delete ./data/storage.json and rerun the script"
DeleteCacheAndRerun ==
    /\ pc = "exited"
    /\ run < MaxRuns
    /\ file.exists
    /\ file' = NoFile
    /\ fileAtStart' = NoFile
    /\ run' = run + 1
    /\ pc' = "start"
    /\ cached' = FALSE
    /\ rpcFailed' = FALSE
    /\ UNCHANGED <<source, envLevel, quick, stack, outstanding, queries, handled, chunksFetched,
                   separator, stream, readText>>
    /\ UNCHANGED svars

Next ==
    \/ ReuseCache
    \/ BeginFetch
    \/ \E p \in outstanding : LeafReturn(p)
    \/ \E p \in outstanding : LeafFail(p)
    \/ StreamOpen
    \/ StreamFlush
    \/ ReadSnapshot
    \/ ReadSnapshotMissing
    \/ ProcessExit
    \/ DeleteCacheAndRerun
    \/ NewRun

Spec == Init /\ [][Next]_vars

\* One run in which no request is rejected and every request that is
\* outstanding gets its response: HTTP responses are delivered to the event
\* loop, which runs the continuation of line 162 as soon as it is idle.
WalkNext ==
    \/ BeginFetch
    \/ \E p \in outstanding : LeafReturn(p)
    \/ StreamOpen
    \/ StreamFlush
    \/ ReadSnapshot
    \/ ReadSnapshotMissing
    \/ ProcessExit

WalkSpec ==
    /\ Init
    /\ [][WalkNext]_vars
    /\ WF_vars(\E p \in outstanding : LeafReturn(p))

----------------------------------------------------------------------------
(* The splice: main() from line 91 *)

Trim(text) ==
    LET ws(c) == c = 16
        RECURSIVE DropLeft(_)
        DropLeft(x) == IF x # <<>> /\ ws(Head(x)) THEN DropLeft(Tail(x)) ELSE x
        RECURSIVE DropRight(_)
        DropRight(x) ==
            IF x # <<>> /\ ws(x[Len(x)]) THEN DropRight(SubSeq(x, 1, Len(x) - 1)) ELSE x
    IN  DropRight(DropLeft(text))

\* lines 94-100
RECURSIVE PopulatePrefixes(_, _)
PopulatePrefixes(pfx, mods) ==
    IF mods = <<>> THEN pfx
    ELSE LET m == Head(mods)
         IN  IF m.storage /\ m.prefix \notin skippedModulesPrefix
             THEN PopulatePrefixes(Append(pfx, XXHash128(m.prefix)), Tail(mods))
             ELSE PopulatePrefixes(pfx, Tail(mods))

\* variant: a key that is already there keeps its value
SetKeyKeepFirst(top, key, value) ==
    [k \in DOMAIN top \cup {key} |-> IF k \in DOMAIN top THEN top[k] ELSE value]
\* top[key] = value and delete top[key]
SetKey(top, key, value) == [k \in DOMAIN top \cup {key} |-> IF k = key THEN value ELSE top[k]]
DeleteKey(top, key) == [k \in DOMAIN top \ {key} |-> top[k]]

\* line 117
Selected(pfx, pair) == \E i \in 1..Len(pfx) : StartsWith(pair[1], pfx[i])

\* variant: every pair of the snapshot is moved
TransplantAll(top, pairs, pfx) ==
    LET RECURSIVE Put(_, _)
        Put(tp, ps) == IF ps = <<>> THEN tp ELSE Put(SetKey(tp, Head(ps)[1], Head(ps)[2]), Tail(ps))
    IN  Put(top, pairs)
\* lines 116-118
Transplant(top, pairs, pfx) ==
    LET RECURSIVE Put(_, _)
        Put(tp, ps) == IF ps = <<>> THEN tp ELSE Put(SetKey(tp, Head(ps)[1], Head(ps)[2]), Tail(ps))
    IN  Put(top, SelectSeq(pairs, LAMBDA pair : Selected(pfx, pair)))

\* lines 121-137
ApplyOverrides(top, hexText) ==
    LET t1 == DeleteKey(top, KeyLastRuntimeUpgrade)
        t2 == SetKey(t1, KeyCode, Trim(hexText))
        t3 == SetKey(t2, KeyForceEra, ForceNone)
        t4 == SetKey(t3, KeyHostConfiguration, HostConfigurationValue)
        t5 == SetKey(t4, KeyCouncilMembers, AliceOnly)
        t6 == SetKey(t5, KeyTechnicalMembers, AliceOnly)
    IN  SetKey(t6, KeyEligibility, EligibilityValue)

\* variant: the fixed keys are set before the snapshot is moved in
SpliceTopOverridesFirst(top, pairs, pfx, hexText) ==
    Transplant(ApplyOverrides(top, hexText), pairs, pfx)
\* lines 116-137
SpliceTop(top, pairs, pfx, hexText) ==
    ApplyOverrides(Transplant(top, pairs, pfx), hexText)

SpliceInit ==
    /\ source = <<>> /\ envLevel = -1 /\ quick = FALSE /\ run = 1
    /\ pc = "start" /\ cached = FALSE
    /\ stack = <<>> /\ outstanding = {} /\ queries = <<>> /\ handled = {}
    /\ chunksFetched = 0 /\ separator = FALSE /\ rpcFailed = FALSE /\ stream = <<>>
    /\ file \in { [exists |-> TRUE, text |-> tx] : tx \in SnapshotTexts }
    /\ fileAtStart = file
    /\ readText = Unread
    /\ binary \in BOOLEAN
    /\ wasm \in BOOLEAN
    /\ schema \in Schemas
    /\ calls = {}
    /\ written = {}
    /\ exitCode = -1
    /\ spc = "start"
    /\ modules = <<>>
    /\ hexFile = <<>>
    /\ chainSpec = NoDoc
    /\ devSpec = NoDoc
    /\ originalFile = NoDoc
    /\ forkFile = PriorOutput
    /\ prefixes = <<PinnedPrefix>>
    /\ storage = <<>>
    /\ originalSpec = NoDoc
    /\ forkedSpec = NoDoc

\* lines 48-52
S_Binary ==
    /\ spc = "start"
    /\ IF ~binary
       THEN /\ exitCode' = 1
            /\ spc' = "exited"
            /\ UNCHANGED calls
       ELSE /\ calls' = calls \cup {"chmod"}
            /\ spc' = "wasm"
            /\ UNCHANGED exitCode
    /\ UNCHANGED <<binary, wasm, schema, written, modules, hexFile, chainSpec, devSpec,
                   originalFile, forkFile, prefixes, storage, originalSpec, forkedSpec>>
    /\ UNCHANGED fvars

\* lines 54-58
S_Wasm ==
    /\ spc = "wasm"
    /\ IF ~wasm
       THEN /\ exitCode' = 1
            /\ spc' = "exited"
            /\ UNCHANGED <<calls, written, hexFile>>
       ELSE /\ calls' = calls \cup {"hexdump"}
            /\ written' = written \cup {"runtime.hex"}
            /\ hexFile' \in HexFiles
            /\ spc' = "schema"
            /\ UNCHANGED exitCode
    /\ UNCHANGED <<binary, wasm, schema, modules, chainSpec, devSpec,
                   originalFile, forkFile, prefixes, storage, originalSpec, forkedSpec>>
    /\ UNCHANGED fvars

\* lines 60-75
S_Api ==
    /\ spc = "schema"
    /\ IF schema = "malformed"
       THEN /\ spc' = "aborted"
            /\ UNCHANGED <<calls, pc, cached>>
       ELSE /\ calls' = calls \cup {"rpc"}
            /\ CacheExists
            /\ pc' = "meta"
            /\ cached' = TRUE
            /\ spc' = "meta"
    /\ UNCHANGED <<binary, wasm, schema, written, exitCode, modules, hexFile, chainSpec, devSpec,
                   originalFile, forkFile, prefixes, storage, originalSpec, forkedSpec>>
    /\ UNCHANGED <<source, envLevel, quick, run, stack, outstanding, queries, handled,
                   chunksFetched, separator, rpcFailed, stream, file, fileAtStart, readText>>

\* lines 91-100
S_Metadata ==
    /\ spc = "meta"
    /\ calls' = calls \cup {"rpc"}
    /\ modules' \in Metadatas
    /\ prefixes' = PopulatePrefixes(prefixes, modules')
    /\ spc' = "buildspec"
    /\ UNCHANGED <<binary, wasm, schema, written, exitCode, hexFile, chainSpec, devSpec,
                   originalFile, forkFile, storage, originalSpec, forkedSpec>>
    /\ UNCHANGED fvars

\* lines 103-104
S_BuildSpec ==
    /\ spc = "buildspec"
    /\ calls' = calls \cup {"build-spec"}
    /\ chainSpec' \in ChainSpecs
    /\ devSpec' \in DevSpecs
    /\ originalFile' = chainSpec'
    /\ forkFile' = devSpec'
    /\ written' = written \cup {"genesis.json", "fork.json"}
    /\ spc' = "parse"
    /\ UNCHANGED <<binary, wasm, schema, exitCode, modules, hexFile, prefixes, storage,
                   originalSpec, forkedSpec>>
    /\ UNCHANGED fvars

\* lines 106-108
S_Parse ==
    /\ spc = "parse"
    /\ readText' = [read |-> TRUE, text |-> file.text]
    /\ IF JSONparse(file.text) = SyntaxError
       THEN /\ spc' = "aborted"
            /\ UNCHANGED <<storage, originalSpec, forkedSpec>>
       ELSE /\ storage' = JSONparse(file.text)
            /\ IF ~originalFile.ok
               THEN spc' = "aborted" /\ UNCHANGED <<originalSpec, forkedSpec>>
               ELSE /\ originalSpec' = originalFile
                    /\ IF ~forkFile.ok
                       THEN spc' = "aborted" /\ UNCHANGED forkedSpec
                       ELSE spc' = "mutate" /\ forkedSpec' = forkFile
    /\ UNCHANGED <<binary, wasm, schema, calls, written, exitCode, modules, hexFile, chainSpec,
                   devSpec, originalFile, forkFile, prefixes>>
    /\ UNCHANGED <<source, envLevel, quick, run, pc, cached, stack, outstanding, queries,
                   handled, chunksFetched, separator, rpcFailed, stream, file, fileAtStart>>

\* lines 111-137
S_Splice ==
    /\ spc = "mutate"
    /\ forkedSpec' =
          [forkedSpec EXCEPT
              !.name = originalSpec.name \o <<"-fork">>,
              !.id = originalSpec.id \o <<"-fork">>,
              !.protocolId = originalSpec.protocolId,
              !.top = SpliceTop(forkedSpec.top, storage, prefixes, hexFile)]
    /\ spc' = "write"
    /\ UNCHANGED <<binary, wasm, schema, calls, written, exitCode, modules, hexFile, chainSpec,
                   devSpec, originalFile, forkFile, prefixes, storage, originalSpec>>
    /\ UNCHANGED fvars

\* lines 139-142
S_Write ==
    /\ spc = "write"
    /\ forkFile' = forkedSpec
    /\ written' = written \cup {"fork.json"}
    /\ exitCode' = 0
    /\ spc' = "done"
    /\ UNCHANGED <<binary, wasm, schema, calls, modules, hexFile, chainSpec, devSpec,
                   originalFile, prefixes, storage, originalSpec, forkedSpec>>
    /\ UNCHANGED fvars

SpliceNext ==
    \/ S_Binary
    \/ S_Wasm
    \/ S_Api
    \/ S_Metadata
    \/ S_BuildSpec
    \/ S_Parse
    \/ S_Splice
    \/ S_Write

SpliceSpec == SpliceInit /\ [][SpliceNext]_vars

----------------------------------------------------------------------------
(* Properties of the fetch *)

\* the run fetched (line 76) and its stream exists
FetchRun == ~cached /\ pc \in {"fetch", "meta", "done", "aborted"}

\* the walk of line 85 has returned and lines 86-88 have run
FetchComplete == ~cached /\ ~rpcFailed /\ pc \in {"meta", "done", "aborted"}

\* everything this run has given to the stream, on disk or still queued
Written == file.text \o Flatten(stream)

PairsOf(text) ==
    LET ps == SelectSeq(text, LAMBDA t : t.t = "pair")
    IN  [i \in 1..Len(ps) |-> <<ps[i].k, ps[i].v>>]

\* the handled chunks whose response was not empty, and the orders they can come in
NonEmptyChunks == {q \in handled : Query(q) # <<>>}
Orderings(S) ==
    {o \in [1..Cardinality(S) -> S] : \A i, j \in 1..Cardinality(S) : i # j => o[i] # o[j]}
Results(addrs) == [i \in 1..Len(addrs) |-> Query(addrs[i])]

RECURSIVE JoinFragments(_)
JoinFragments(fs) ==
    IF fs = <<>> THEN <<>>
    ELSE IF Len(fs) = 1 THEN JoinPairs(fs[1])
    ELSE JoinPairs(fs[1]) \o <<COMMA>> \o JoinFragments(Tail(fs))

Distinct(s) == \A i, j \in 1..Len(s) : i # j => s[i] # s[j]

Count(x, s) == Cardinality({i \in 1..Len(s) : s[i] = x})

Parent(p) == SubSeq(p, 1, Len(p) - 2)

RECURSIVE LexLess(_, _)
LexLess(a, b) ==
    IF b = <<>> THEN FALSE
    ELSE IF a = <<>> THEN TRUE
    ELSE IF a[1] # b[1] THEN a[1] < b[1]
    ELSE LexLess(Tail(a), Tail(b))

\* C1: a fetch that completed without RPC error has written '[', then the
\* fragments of the non-empty chunks, each once, in some order, with exactly
\* one comma between two fragments and nothing for an empty chunk, then ']':
\* one well-formed JSON array, which is the file once the stream has drained.
C1_WellFormedArray ==
    FetchComplete =>
        /\ \E o \in Orderings(NonEmptyChunks) :
              Written = <<LB>> \o JoinFragments(Results(o)) \o <<RB>>
        /\ JSONparse(Written) # SyntaxError
        /\ (stream = <<>> /\ file.exists => JSONparse(file.text) # SyntaxError)

C1_Witness ==
    /\ FetchComplete /\ quick /\ ChunksLevel = 2
    /\ stream = <<>> /\ file.exists
    /\ Cardinality(NonEmptyChunks) = 2
    /\ \E q \in handled : Query(q) = <<>>

\* C2: in a completed fetch every pair the source holds appears exactly once in
\* the snapshot, so the flattened pair count equals the source's total.
C2_Complete ==
    FetchComplete =>
        /\ \A i \in 1..Len(source) : Count(source[i], PairsOf(Written)) = 1
        /\ Len(PairsOf(Written)) = Len(source)

\* C3: a completed walk has queried exactly 256^levels pairwise distinct
\* prefixes of levels bytes each, once each, and every storage key falls under
\* exactly one of them; at levels = 0 it is the single query of the empty prefix.
C3_Partition ==
    FetchComplete =>
        /\ Len(queries) = Pow(Fanout, ChunksLevel)
        /\ Distinct(queries)
        /\ \A i \in 1..Len(queries) : Len(queries[i]) = 2 * ChunksLevel
        /\ (ChunksLevel = 0 => queries = <<<<>>>>)
        /\ \A i \in 1..Len(source) :
              Cardinality({j \in 1..Len(queries) : StartsWith(source[i][1], queries[j])}) = 1

\* C4: in normal mode at most one range query is outstanding; in quick mode at
\* most 256 are, and all of them are leaf chunks under one parent prefix.
C4_BoundedConcurrency ==
    /\ ~quick => Cardinality(outstanding) <= 1
    /\ Cardinality(outstanding) <= Fanout
    /\ \A p, q \in outstanding :
          /\ Len(p) = 2 * ChunksLevel
          /\ Parent(p) = Parent(q)

C4_Witness ==
    /\ quick /\ ChunksLevel = 2
    /\ Cardinality(outstanding) = Fanout
    /\ Cardinality(handled) = Fanout

\* C5: in quick mode a batch is left only when all its children have been
\* handled: a chunk under another parent is queried, and ']' is written, only
\* when no earlier request is outstanding.
C5_Barrier ==
    quick /\ FetchRun =>
        /\ \A i, j \in 1..Len(queries) :
              i < j /\ Parent(queries[i]) # Parent(queries[j])
                  => queries[i] \in handled
        /\ (RB \in Range(Written) =>
                outstanding = {} /\ handled = Range(queries))

C5_Witness ==
    /\ quick /\ ChunksLevel = 2 /\ pc = "fetch"
    /\ Len(queries) = 2 * Fanout
    /\ Cardinality(outstanding) = Fanout

\* C6: in normal mode a chunk is queried only when every chunk queried before
\* it has been handled, chunks are visited in lexicographic order of their
\* address, and the pairs written are those of the handled chunks in that
\* order, each chunk's in the order of its response.
C6_NormalOrder ==
    ~quick /\ FetchRun =>
        /\ \A i, j \in 1..Len(queries) : i < j => LexLess(queries[i], queries[j])
        /\ handled = Range(SubSeq(queries, 1, Cardinality(handled)))
        /\ Len(queries) - Cardinality(handled) <= 1
        /\ PairsOf(Written) = Flatten(Results(SubSeq(queries, 1, Cardinality(handled))))

C6_Witness ==
    /\ ~quick /\ FetchComplete /\ pc = "done"
    /\ Len(source) = 2
    /\ PairsOf(file.text) = <<source[2], source[1]>>

\* C7: once a range query has failed the run is aborted: no query is sent any
\* more, ']' is not written, and the file is neither deleted nor changed except
\* by the writes already made.
C7_AbortOnRpcError ==
    /\ [](rpcFailed =>
            /\ pc \in {"aborted", "exited"}
            /\ RB \notin Range(file.text)
            /\ RB \notin Range(Flatten(stream))
            /\ Distinct(queries))
    /\ [][rpcFailed /\ rpcFailed' =>
            /\ Len(queries') <= Len(queries)
            /\ file.exists => file'.exists /\ StartsWith(file'.text, file.text)
            /\ StartsWith(Written', Written) \/ pc' = "exited"]_vars

C7_Witness ==
    /\ rpcFailed /\ pc = "exited"
    /\ file.exists /\ Len(file.text) >= 2

\* C8: a run that found the snapshot file at its start sends no range query,
\* leaves the file as it was, and reads that content as the snapshot.
C8_CacheShortCircuit ==
    fileAtStart.exists =>
        /\ queries = <<>> /\ outstanding = {} /\ chunksFetched = 0
        /\ stream = <<>>
        /\ file = fileAtStart
        /\ (readText.read => readText.text = fileAtStart.text)
        /\ (pc # "start" => cached)

C8_Witness ==
    /\ fileAtStart.exists /\ readText.read /\ pc = "aborted"
    /\ Len(fileAtStart.text) >= 2
    /\ RB \notin Range(fileAtStart.text)

----------------------------------------------------------------------------
(* Properties of the splice *)

\* the override table of the design: what lines 121-137 are to leave behind
Keep(key, value) == [key |-> key, del |-> FALSE, val |-> value]
Remove(key) == [key |-> key, del |-> TRUE, val |-> <<>>]
OverrideTable ==
    { Remove(KeyLastRuntimeUpgrade),
      Keep(KeyCode, RuntimeHex),
      Keep(KeyForceEra, ForceNone),
      Keep(KeyHostConfiguration, HostConfigurationValue),
      Keep(KeyCouncilMembers, AliceOnly),
      Keep(KeyTechnicalMembers, AliceOnly),
      Keep(KeyEligibility, EligibilityValue) }

\* what a storage map holds for a key: <<value>>, or <<>> when the key is absent
Entry(top, key) == IF key \in DOMAIN top THEN <<top[key]>> ELSE <<>>

Outcome(e) == IF e.del THEN <<>> ELSE <<e.val>>

\* C9: after the splice, and in the document written, every key of the
\* override table (the runtime code key included) has the override's outcome,
\* whatever the snapshot and the template hold for it.
C9_OverridePrecedence ==
    /\ spc \in {"write", "done"} =>
          \A e \in OverrideTable : Entry(forkedSpec.top, e.key) = Outcome(e)
    /\ spc = "done" =>
          \A e \in OverrideTable : Entry(forkFile.top, e.key) = Outcome(e)

C9_Witness ==
    /\ spc = "done"
    /\ KeyForceEra \in DOMAIN devSpec.top
    /\ \E i \in 1..Len(storage) :
          /\ storage[i][1] = KeyForceEra
          /\ Selected(prefixes, storage[i])
          /\ storage[i][2] # ForceNone

\* C10 as stated: a snapshot pair whose key starts with no prefix of the list
\* is not a key-value pair of the output's storage map.
C10_NeverAppears ==
    spc = "done" =>
        \A i \in 1..Len(storage) :
            ~Selected(prefixes, storage[i]) =>
                Entry(forkFile.top, storage[i][1]) # <<storage[i][2]>>

\* C10 as amended: a snapshot pair whose key starts with no prefix of the list
\* is not copied: the output holds for its key the override's outcome if the
\* key is in the override table, else what the template holds, whatever the
\* snapshot's value.
C10_NotTransplanted ==
    spc = "done" =>
        \A i \in 1..Len(storage) :
            ~Selected(prefixes, storage[i]) =>
                LET k == storage[i][1]
                IN  Entry(forkFile.top, k) =
                        IF \E e \in OverrideTable : e.key = k
                        THEN Outcome(CHOOSE e \in OverrideTable : e.key = k)
                        ELSE Entry(devSpec.top, k)

C10_Witness ==
    /\ spc = "done"
    /\ ModSession \in Range(modules)
    /\ \E i \in 1..Len(storage) :
          /\ storage[i][1] = KeySessionValidators
          /\ ~Selected(prefixes, storage[i])
          /\ KeySessionValidators \in DOMAIN devSpec.top

\* the value of the last selected pair of the snapshot with key k: <<v>>, or <<>>
LastSelected(pairs, pfx, k) ==
    LET I == {i \in 1..Len(pairs) : pairs[i][1] = k /\ Selected(pfx, pairs[i])}
    IN  IF I = {} THEN <<>> ELSE <<pairs[CHOOSE i \in I : \A j \in I : j <= i][2]>>

\* what the overlay of template, selected pairs and override table gives for k
Overlay(k) ==
    IF \E e \in OverrideTable : e.key = k
    THEN Outcome(CHOOSE e \in OverrideTable : e.key = k)
    ELSE IF LastSelected(storage, prefixes, k) # <<>>
    THEN LastSelected(storage, prefixes, k)
    ELSE Entry(devSpec.top, k)

C12_AbortBeforeMutation ==
    spc = "aborted" =>
        /\ forkedSpec = NoDoc
        /\ written = {}
        /\ forkFile = PriorOutput

\* C13: when data/binary or data/runtime.wasm is absent at the start of the
\* run, the process stops at that test with status 1 and the run has written
\* no file (hex, snapshot, spec) and has called neither the RPC nor an
\* external program.
C13_NothingDone ==
    (~binary \/ ~wasm) =>
        /\ spc \in {"start", "wasm", "exited"}
        /\ (spc = "exited" => exitCode = 1)
        /\ written = {}
        /\ hexFile = <<>> /\ originalFile = NoDoc /\ forkFile = PriorOutput
        /\ file = fileAtStart
        /\ calls = {}

----------------------------------------------------------------------------
(* Further properties of the fetch *)

\* C14: the counter is advanced by one by every handled leaf chunk, empty or
\* not, and by nothing else while the process runs: it equals the number of
\* chunks handled (no increment is lost in quick mode), stays within
\* 0..totalChunks, and equals totalChunks exactly when the walk has completed.
C14_ProgressCounter ==
    /\ [](/\ chunksFetched \in 0..totalChunks
          /\ (pc # "exited" => chunksFetched = Cardinality(handled))
          /\ (chunksFetched = totalChunks <=> FetchComplete))
    /\ [][pc' # "exited" =>
            /\ chunksFetched' \in {chunksFetched, chunksFetched + 1}
            /\ (chunksFetched' = chunksFetched + 1 <=>
                    \E p \in outstanding : p \notin handled /\ handled' = handled \cup {p})
            /\ (chunksFetched' = chunksFetched <=> handled' = handled)]_vars

C14_Witness ==
    /\ quick /\ ChunksLevel = 2 /\ FetchComplete
    /\ source = <<>>
    /\ chunksFetched = totalChunks
    /\ Cardinality(handled) = Fanout * Fanout

----------------------------------------------------------------------------
(* Properties of the prefix list *)

\* the skip list of the design
SkipList ==
    {"System", "Session", "Babe", "Grandpa", "GrandpaFinality", "FinalityTracker", "Authorship"}

\* C15 as stated: the list holds the hash of the name of every module with
\* storage whose name is not in the skip list, the hash of the name of no
\* module that is in the skip list or has no storage, and the pinned prefix.
C15_ByModuleName ==
    /\ \A i \in 1..Len(modules) :
          LET m == modules[i]
          IN  IF m.storage /\ m.name \notin SkipList
              THEN XXHash128(m.name) \in Range(prefixes)
              ELSE XXHash128(m.name) \notin Range(prefixes)
    /\ PinnedPrefix \in Range(prefixes)

\* C15 as amended: the list is the pinned prefix followed by the hashes of the
\* storage prefixes of the modules that have storage and whose storage prefix
\* is not in the skip list; it holds no hash for a module whose storage prefix
\* is in the skip list or that has no storage.
C15_ByStoragePrefix ==
    /\ prefixes[1] = PinnedPrefix
    /\ Range(prefixes) =
          {PinnedPrefix} \cup
          { XXHash128(m.prefix) : m \in {x \in Range(modules) : x.storage /\ x.prefix \notin SkipList} }
    /\ \A i \in 1..Len(modules) :
          LET m == modules[i]
          IN  /\ (m.storage /\ m.prefix \in SkipList => XXHash128(m.prefix) \notin Range(prefixes))
              /\ (~m.storage => XXHash128(m.name) \notin Range(prefixes))

C15_Witness ==
    /\ spc = "buildspec"
    /\ {ModSystem, ModUtility, ModStaking, ModSession, ModCouncil} \subseteq Range(modules)
    /\ Range(prefixes) = {PinnedPrefix, XXHash128("Staking"), XXHash128("Instance1Collective")}

----------------------------------------------------------------------------
(* Determinism of the fetch *)

\* the chunk addresses of n bytes, in ascending order
RECURSIVE Addresses(_)
Addresses(n) ==
    IF n <= 0 THEN <<<<>>>>
    ELSE LET shorter == Addresses(n - 1)
         IN  Flatten([i \in 1..Len(shorter) |->
                        [j \in 1..Fanout |-> shorter[i] \o PadStart2(ToString16(j - 1))]])

NonEmpty(rs) == SelectSeq(rs, LAMBDA r : r # <<>>)

\* the one text a normal-mode fetch of this source at this depth can write
SnapshotOf == <<LB>> \o JoinFragments(NonEmpty(Results(Addresses(ChunksLevel)))) \o <<RB>>

SameMultiset(a, b) == \A x \in Range(a) \cup Range(b) : Count(x, a) = Count(x, b)

\* C16: what a completed fetch that started without cache file has written is
\* fixed by the source, the depth and the mode alone, in the first run and in
\* a later one: in normal mode it is one text, byte for byte, and it is the
\* file once the stream has drained; in quick mode it is the same multiset of
\* pairs, as whole fragments in some order.
C16_Deterministic ==
    FetchComplete =>
        /\ ~quick =>
              /\ Written = SnapshotOf
              /\ (stream = <<>> /\ file.exists => file.text = SnapshotOf)
        /\ quick =>
              /\ SameMultiset(PairsOf(Written), PairsOf(SnapshotOf))
              /\ \E o \in Orderings({a \in Range(Addresses(ChunksLevel)) : Query(a) # <<>>}) :
                    Written = <<LB>> \o JoinFragments(Results(o)) \o <<RB>>

\* a second run that found no snapshot file has fetched and left the same file
C16_Witness ==
    /\ run = 2 /\ ~quick /\ ChunksLevel = 2
    /\ ~fileAtStart.exists
    /\ FetchComplete /\ pc = "done"
    /\ stream = <<>> /\ file.text = SnapshotOf
    /\ Len(PairsOf(file.text)) = 2

----------------------------------------------------------------------------
(* The writes of concurrent leaves *)

\* what lines 163-166 append for the response of chunk p
FragmentOf(p) ==
    IF Query(p) = <<>> THEN <<>>
    ELSE (IF separator THEN <<COMMA>> ELSE <<>>) \o JoinPairs(Query(p))

\* C17: in a fetching run, whatever the order of the responses, the separator
\* flag is true exactly when a fragment has been appended, what follows '[' is
\* whole fragments joined by single commas (then ']' once the walk is over),
\* and every step that appends to the stream appends the comma and fragment
\* of one outstanding leaf as a block, decided by the flag as it stood.
C17_SerializedWrites ==
    /\ [](FetchRun =>
            /\ separator <=> NonEmptyChunks # {}
            /\ separator <=> \E i \in 1..Len(Written) : Written[i].t = "pair"
            /\ \E o \in Orderings(NonEmptyChunks) :
                  \/ Written = <<LB>> \o JoinFragments(Results(o))
                  \/ Written = <<LB>> \o JoinFragments(Results(o)) \o <<RB>>)
    /\ [][FetchRun /\ pc' # "exited" /\ Written' # Written =>
            \E p \in outstanding :
                \/ Written' = Written \o FragmentOf(p)
                \/ Written' = Written \o FragmentOf(p) \o <<RB>>]_vars

\* two leaves of one batch have written, the one sent later first
C17_Witness ==
    /\ quick /\ FetchRun
    /\ LET ps == PairsOf(Written)
       IN  /\ Len(ps) = 2
           /\ \E i, j \in 1..Len(queries) :
                 /\ i < j
                 /\ Parent(queries[i]) = Parent(queries[j])
                 /\ Query(queries[j]) = <<ps[1]>>
                 /\ Query(queries[i]) = <<ps[2]>>

----------------------------------------------------------------------------
(* Read-back and termination *)

\* C18: in a run that fetched, what line 106 reads is everything the run gave
\* to the stream, the closing bracket included: the read finds the file and
\* nothing is still queued.
C18_FlushedBeforeRead ==
    FetchComplete /\ pc \in {"done", "aborted"} =>
        /\ readText.read
        /\ readText.text = Written
        /\ JSONparse(readText.text) # SyntaxError

\* the walk is over: every leaf address was queried once and handled, the
\* counter is at the total, and ']' is the last thing written, once
WalkDone ==
    /\ FetchComplete
    /\ outstanding = {}
    /\ Len(queries) = totalChunks
    /\ Range(queries) = Range(Addresses(ChunksLevel))
    /\ handled = Range(queries)
    /\ chunksFetched = totalChunks
    /\ Count(RB, Written) = 1
    /\ Written[Len(Written)] = RB

\* C19: at every depth and in both modes, when every request sent gets its
\* response, a walk that has begun is eventually over with every leaf queried,
\* the counter at the total and ']' written once after all fragments; it stays
\* so while the process runs and the walk is not entered again.
C19_WalkTerminates ==
    /\ (pc = "fetch") ~> WalkDone
    /\ [](FetchComplete => WalkDone)
    /\ [][pc \notin {"start", "fetch"} => pc' # "fetch"]_vars

C19_Witness ==
    /\ WalkDone
    /\ ~quick /\ ChunksLevel = 2
    /\ pc = "meta"
    /\ Len(PairsOf(Written)) = 2

=============================================================================
